---- MODULE Spec2Model ----
(***************************************************************************)
(* Speed reader (RSVP) of lazyharry: the useSpeedReader hook of the        *)
(* speed reader command and the tokenizer of utils/speed-reader-utils.     *)
(*                                                                         *)
(* The hook keeps one React state object {words, currentIndex, isPlaying, *)
(* wpm}.  Every handler is a functional setState updater, so the logical  *)
(* state is the updaters applied in call order.  The timer is armed and   *)
(* cleared by a passive effect, which React runs after the render that    *)
(* follows a state update: between the update and the effect, further     *)
(* callbacks (user actions, interval ticks, clipboard completions) may    *)
(* run.  A text is a sequence of one-character strings.                   *)
(***************************************************************************)
EXTENDS Integers, Sequences, FiniteSets, TLC

\* ------------------------------------------------------------- constants
DEFAULT_WPM == 350
MIN_WPM == 50
MAX_WPM == 1000
WPM_STEP == 50
SKIP_WORDS == 10

\* ---------------------------------------------------------------- bounds
\* number of words of the one long clipboard text (more than SKIP_WORDS)
LongWords == 12
\* clipboard reads that may be in flight at once
MaxLoads == 2
\* state updates that may be queued before React renders
MaxPending == 1
\* interval handles the host can hand out
NumHandles == 3
\* the largest number of words left the time utilities are called with
MaxWordsLeft == 120
\* the longest text tokenizeText is called with, apart from the named examples
MaxTextLen == 5
\* the longest word of markup characters the word utilities are called with
MaxXmlLen == 4
\* the longest word the word utilities are called with
MaxOrpLen == 16

VARIABLES
    state,          \* the hook's state: [words, currentIndex, isPlaying, wpm]
    intervalRef,    \* intervalRef.current: a handle, or 0 for null
    intervals,      \* the host's interval table: handle -> wpm its delay was computed
                    \* from (the delay is intervalMs of it), 0 = not armed
    deps,           \* [isPlaying, wpm, len]: the timer effect's dependencies at the last render
    effectPending,  \* the last render changed the dependencies and the effect has not run yet
    pending,        \* state updates queued since the last render
    loads,          \* clipboard reads in flight
    mounted,        \* the command is on screen
    pass,           \* observer: progress of an undisturbed load / togglePlay / advance pass
    call            \* a call of the time utilities outside the hook:
                    \* [stage, left, wpm, seconds, text]; NoCall while the hook runs

vars == <<state, intervalRef, intervals, deps, effectPending, pending, loads, mounted, pass,
          call>>

Handles == 1..NumHandles

Max(a, b) == IF a >= b THEN a ELSE b
Min(a, b) == IF a <= b THEN a ELSE b

\* ------------------------------------------------------------- tokenizer
Whitespace == {" ", "\t", "\n"}

RECURSIVE trimStart(_)
trimStart(s) ==
    IF s = <<>> \/ Head(s) \notin Whitespace THEN s ELSE trimStart(Tail(s))

RECURSIVE trimEnd(_)
trimEnd(s) ==
    IF s = <<>> \/ s[Len(s)] \notin Whitespace THEN s
    ELSE trimEnd(SubSeq(s, 1, Len(s) - 1))

\* String.prototype.trim
trim(s) == trimEnd(trimStart(s))

RECURSIVE dropSpaces(_)
dropSpaces(s) == IF s = <<>> \/ Head(s) # " " THEN s ELSE dropSpaces(Tail(s))

\* the replacement with / +/g: only runs of spaces are collapsed
RECURSIVE replaceSpaceRuns(_)
replaceSpaceRuns(s) ==
    IF s = <<>> THEN <<>>
    ELSE IF Head(s) = " "
         THEN <<" ">> \o replaceSpaceRuns(dropSpaces(Tail(s)))
         ELSE <<Head(s)>> \o replaceSpaceRuns(Tail(s))

\* .replace(/\s+/g, " "): every maximal run of whitespace becomes one space
RECURSIVE replaceWhitespaceRuns(_)
replaceWhitespaceRuns(s) ==
    IF s = <<>> THEN <<>>
    ELSE IF Head(s) \in Whitespace
         THEN <<" ">> \o replaceWhitespaceRuns(trimStart(Tail(s)))
         ELSE <<Head(s)>> \o replaceWhitespaceRuns(Tail(s))

\* .split(" "): the pieces between single spaces, empty pieces included
RECURSIVE splitFrom(_, _)
splitFrom(s, piece) ==
    IF s = <<>> THEN <<piece>>
    ELSE IF Head(s) = " " THEN <<piece>> \o splitFrom(Tail(s), <<>>)
         ELSE splitFrom(Tail(s), Append(piece, Head(s)))

split(s) == splitFrom(s, <<>>)

\* a filter that keeps every piece
AnyWord(word) == TRUE

NonEmptyWord(word) == Len(word) > 0

tokenizeText(text) ==
    IF text = <<>> THEN <<>>
    ELSE SelectSeq(split(replaceWhitespaceRuns(trim(text))), NonEmptyWord)

\* ------------------------------------------------------ clipboard inputs
\* a text of n words "a", separated by single newlines
WordsText(n) == [i \in 1..(2 * n - 1) |-> IF i % 2 = 1 THEN "a" ELSE "\n"]

\* the clipboard texts tried: empty, whitespace only, one word, three words with
\* leading, trailing and repeated whitespace, and one text longer than SKIP_WORDS
ClipboardTexts ==
    { <<>>,
      <<" ", "\n">>,
      <<"a">>,
      <<" ", "a", " ", "\t", "b", ",", "\n", "c", " ">>,
      WordsText(LongWords) }

\* what `await Clipboard.readText()` can give: a string, undefined, or a rejection
ReadResults ==
    {[kind |-> "text", text |-> t] : t \in ClipboardTexts}
        \cup {[kind |-> "undefined", text |-> <<>>], [kind |-> "throw", text |-> <<>>]}

\* ------------------------------------------------------ setState updaters
\* togglePlay without the restart at the end of the text
togglePlayNoRestart(prev) == [prev EXCEPT !.isPlaying = ~prev.isPlaying]

togglePlay(prev) ==
    IF prev.currentIndex >= Len(prev.words) - 1 /\ ~prev.isPlaying
    THEN [prev EXCEPT !.currentIndex = 0, !.isPlaying = TRUE]
    ELSE [prev EXCEPT !.isPlaying = ~prev.isPlaying]

\* nextWord without the end-of-text test
nextWordNoStop(prev) == [prev EXCEPT !.currentIndex = prev.currentIndex + 1]

\* nextWord starting over at the end of the text
nextWordWraps(prev) ==
    IF prev.currentIndex >= Len(prev.words) - 1
    THEN [prev EXCEPT !.currentIndex = 0]
    ELSE [prev EXCEPT !.currentIndex = prev.currentIndex + 1]

\* nextWord advancing two words at a time
nextWordSkipsOne(prev) ==
    IF prev.currentIndex >= Len(prev.words) - 1
    THEN [prev EXCEPT !.isPlaying = FALSE]
    ELSE [prev EXCEPT !.currentIndex = Min(Len(prev.words) - 1, prev.currentIndex + 2)]

\* nextWord stopping one word early
nextWordStopsEarly(prev) ==
    IF prev.currentIndex >= Len(prev.words) - 2
    THEN [prev EXCEPT !.isPlaying = FALSE]
    ELSE [prev EXCEPT !.currentIndex = prev.currentIndex + 1]

nextWord(prev) ==
    IF prev.currentIndex >= Len(prev.words) - 1
    THEN [prev EXCEPT !.isPlaying = FALSE]
    ELSE [prev EXCEPT !.currentIndex = prev.currentIndex + 1]

\* rewind without the clamp at the first word
rewindNoClamp(prev) == [prev EXCEPT !.currentIndex = prev.currentIndex - SKIP_WORDS]

rewind(prev) ==
    [prev EXCEPT !.currentIndex = Max(0, prev.currentIndex - SKIP_WORDS)]

forward(prev) ==
    [prev EXCEPT !.currentIndex = Min(Len(prev.words) - 1, prev.currentIndex + SKIP_WORDS)]

\* speedUp by a tenth of the pace
speedUpByTenth(prev) == [prev EXCEPT !.wpm = Min(MAX_WPM, prev.wpm + prev.wpm \div 10)]

\* speedUp without the clamp at MAX_WPM
speedUpNoClamp(prev) == [prev EXCEPT !.wpm = prev.wpm + WPM_STEP]

speedUp(prev) == [prev EXCEPT !.wpm = Min(MAX_WPM, prev.wpm + WPM_STEP)]

\* slowDown restarting the text
slowDownRestarts(prev) ==
    [prev EXCEPT !.wpm = Max(MIN_WPM, prev.wpm - WPM_STEP), !.currentIndex = 0]

slowDown(prev) == [prev EXCEPT !.wpm = Max(MIN_WPM, prev.wpm - WPM_STEP)]

\* the load updater built on the state of the first render instead of prev
loadedFromFirstRender(prev, words) ==
    [words |-> words, currentIndex |-> 0, isPlaying |-> FALSE, wpm |-> DEFAULT_WPM]

\* the load updater without the reset of currentIndex
loadedKeepsIndex(prev, words) == [prev EXCEPT !.words = words, !.isPlaying = FALSE]

\* the updater of loadFromClipboard's setState
loaded(prev, words) ==
    [prev EXCEPT !.words = words, !.currentIndex = 0, !.isPlaying = FALSE]

\* ------------------------------------------------------- loadFromClipboard
\* loadFromClipboard without its two early returns
loadToastUnchecked(r) ==
    IF r.kind = "throw" THEN "Error"
    ELSE IF r.kind = "undefined" THEN "Clipboard Empty"
    ELSE "Text Loaded"

\* loadFromClipboard reporting a rejected read as an empty clipboard
loadToastThrowAsEmpty(r) ==
    IF r.kind \in {"throw", "undefined"} \/ r.text = <<>> \/ Len(trim(r.text)) = 0
    THEN "Clipboard Empty"
    ELSE IF Len(tokenizeText(r.text)) = 0 THEN "No Words Found"
    ELSE "Text Loaded"

\* the title of the notice loadFromClipboard shows for a read result; only the
\* "Text Loaded" path calls setState
loadToast(r) ==
    IF r.kind = "throw" THEN "Error"
    ELSE IF r.kind = "undefined" \/ r.text = <<>> \/ Len(trim(r.text)) = 0
         THEN "Clipboard Empty"
    ELSE IF Len(tokenizeText(r.text)) = 0 THEN "No Words Found"
    ELSE "Text Loaded"

\* loadFromClipboard's outcome for every read result, tabulated: the notice, and the
\* words handed to setState on the "Text Loaded" path
loadOutcome ==
    [r \in ReadResults |->
        [toast |-> loadToast(r),
         words |-> IF loadToast(r) = "Text Loaded" THEN tokenizeText(r.text) ELSE <<>>]]

\* the titles shown with Toast.Style.Failure; "Text Loaded" is the Toast.Style.Success one
FailureToasts == {"Clipboard Empty", "No Words Found", "Error"}

\* --------------------------------------------------------------- the hook
\* the dependency list with state.currentIndex added
DepsWithIndex(st) ==
    [isPlaying |-> st.isPlaying, wpm |-> st.wpm, len |-> Len(st.words),
     currentIndex |-> st.currentIndex]

\* the state the timer effect depends on: [state.isPlaying, state.wpm, words.length]
\* (nextWord is a useCallback with no dependencies and never changes)
Deps(st) == [isPlaying |-> st.isPlaying, wpm |-> st.wpm, len |-> Len(st.words)]

\* an effect without a dependency list: it runs after every render
depsChangedAlways(old, new) == TRUE

\* a comparison that misses a change of state.wpm
depsChangedIgnoringWpm(old, new) == old.isPlaying # new.isPlaying \/ old.len # new.len

\* React re-runs an effect when a dependency differs from the previous render's
depsChanged(old, new) == old # new

\* the guard without the test of words.length
shouldArmIgnoringWords(d) == d.isPlaying

\* the effect body's guard: state.isPlaying && state.words.length > 0
shouldArm(d) == d.isPlaying /\ d.len > 0

\* intervalMs = (60 / state.wpm) * 1000, as the exact fraction num / den of a
\* millisecond (the double the code computes is the one nearest to it)
intervalMs(wpm) == [num |-> 60 * 1000, den |-> wpm]

InitialState ==
    [words |-> <<>>, currentIndex |-> 0, isPlaying |-> FALSE, wpm |-> DEFAULT_WPM]

NoCall == [stage |-> "none"]

\* after the first render and its effects: the timer effect found nothing to arm,
\* the mount effect has called loadFromClipboard
Init ==
    /\ state = InitialState
    /\ intervalRef = 0
    /\ intervals = [h \in Handles |-> 0]
    /\ deps = Deps(InitialState)
    /\ effectPending = FALSE
    /\ pending = 0
    /\ loads = 1
    /\ mounted = TRUE
    /\ pass = -2
    /\ call = NoCall

\* clearInterval(h); clearing null or a cleared handle does nothing
clearInterval(table, h) ==
    IF h = 0 THEN table ELSE [table EXCEPT ![h] = 0]

\* the handle setInterval returns: the first one of the table that is not armed.  (Node
\* never hands out a handle twice; a cleared handle is reused here only where the one
\* reference to it, intervalRef.current, is overwritten in the same step.)
setInterval(table) == CHOOSE h \in Handles : table[h] = 0 /\ \A g \in Handles : table[g] = 0 => h <= g

\* a cleanup that leaves the interval armed
effectCleanupKeepsTimer(table, ref) == table

\* the cleanup the timer effect returned
effectCleanup(table, ref) == clearInterval(table, ref)

\* setState(updater) with the updater's result
SetState(new) ==
    /\ pending < MaxPending
    /\ state' = new
    /\ pending' = pending + 1

\* the observer of a pass: -2 none, -1 freshly loaded, k >= 0 advances since the
\* togglePlay that started the pass (after a load, or after the previous pass ended)
PassAfterToggle == IF pass = -1 \/ pass = Len(state.words) THEN 0 ELSE -2
PassAfterTick == IF pass >= 0 /\ pass < Len(state.words) THEN pass + 1 ELSE -2

\* an ActionPanel action whose handler calls setState, with the updater's result
UserAction(new) ==
    /\ mounted
    /\ SetState(new)
    /\ UNCHANGED <<intervalRef, intervals, deps, effectPending, loads, mounted, call>>

TogglePlay == UserAction(togglePlay(state)) /\ pass' = PassAfterToggle
Rewind == UserAction(rewind(state)) /\ pass' = -2
Forward == UserAction(forward(state)) /\ pass' = -2
SpeedUp == UserAction(speedUp(state)) /\ pass' = -2
SlowDown == UserAction(slowDown(state)) /\ pass' = -2

\* the "Reload Clipboard" action: loadFromClipboard up to its await
LoadStart ==
    /\ mounted
    /\ loads < MaxLoads
    /\ loads' = loads + 1
    /\ UNCHANGED <<state, intervalRef, intervals, deps, effectPending, pending, mounted, pass, call>>

\* loadFromClipboard from its await on, with the read's result r
LoadComplete(r) ==
    /\ loads > 0
    /\ loads' = loads - 1
    /\ IF mounted /\ loadOutcome[r].toast = "Text Loaded"
       THEN SetState(loaded(state, loadOutcome[r].words)) /\ pass' = -1
       ELSE UNCHANGED <<state, pending, pass>>
    /\ UNCHANGED <<intervalRef, intervals, deps, effectPending, mounted, call>>

\* an armed interval fires: the host calls nextWord
Tick(h) ==
    /\ intervals[h] # 0
    /\ IF mounted
       THEN SetState(nextWord(state)) /\ pass' = PassAfterTick
       ELSE UNCHANGED <<state, pending, pass>>
    /\ UNCHANGED <<intervalRef, intervals, deps, effectPending, loads, mounted, call>>

\* React renders the queued updates; the timer effect is scheduled when one of
\* its dependencies [isPlaying, wpm, nextWord, words.length] changed
Render ==
    /\ mounted
    /\ pending > 0
    /\ ~effectPending
    /\ pending' = 0
    /\ deps' = Deps(state)
    /\ effectPending' = depsChanged(deps, Deps(state))
    /\ UNCHANGED <<state, intervalRef, intervals, loads, mounted, pass, call>>

\* the timer effect: the previous run's cleanup, then the body with the rendered values
RunEffect ==
    /\ mounted
    /\ effectPending
    /\ effectPending' = FALSE
    /\ LET cleaned == effectCleanup(intervals, intervalRef) IN
       IF shouldArm(deps)
       THEN /\ \E h \in Handles : cleaned[h] = 0
            /\ intervals' = [cleaned EXCEPT ![setInterval(cleaned)] = deps.wpm]
            /\ intervalRef' = setInterval(cleaned)
       ELSE /\ intervals' = clearInterval(cleaned, intervalRef)
            /\ intervalRef' = 0
    /\ UNCHANGED <<state, deps, pending, loads, mounted, pass, call>>

\* the command is closed: React runs the cleanup of the effect's last run (a
\* scheduled effect is run before the commit that unmounts)
Unmount ==
    /\ mounted
    /\ ~effectPending
    /\ mounted' = FALSE
    /\ intervals' = effectCleanup(intervals, intervalRef)
    /\ UNCHANGED <<state, intervalRef, deps, effectPending, pending, loads, pass, call>>

Next ==
    \/ TogglePlay
    \/ Rewind
    \/ Forward
    \/ SpeedUp
    \/ SlowDown
    \/ LoadStart
    \/ \E r \in ReadResults : LoadComplete(r)
    \/ \E h \in Handles : Tick(h)
    \/ Render
    \/ RunEffect
    \/ Unmount

Spec == Init /\ [][Next]_vars

\* ---------------------------------------------------------- the snapshot
\* Math.round of the fraction num / den, den > 0: the nearest integer, halves upwards
MathRound(num, den) == (2 * num + den) \div (2 * den)

\* progress as the share of words.length, not of the last index
progressOverLength(st) ==
    IF Len(st.words) > 0 THEN MathRound(st.currentIndex * 100, Len(st.words)) ELSE 0

\* progress = words.length > 0 ? Math.round((currentIndex / (words.length - 1)) * 100) || 0 : 0
\* with one word the division is by zero: 0 / 0 is NaN, which || turns into 0, and
\* any other index would give an infinity
progress(st) ==
    LET n == Len(st.words)
        c == st.currentIndex
    IN IF n > 0
       THEN IF n - 1 = 0
            THEN IF c = 0 THEN 0 ELSE IF c > 0 THEN "Infinity" ELSE "-Infinity"
            ELSE MathRound(c * 100, n - 1)
       ELSE 0

\* wordsLeft counting the current word
wordsLeftCountsCurrent(st) == Max(0, Len(st.words) - st.currentIndex)

\* wordsLeft = Math.max(0, words.length - currentIndex - 1)
wordsLeft(st) == Max(0, Len(st.words) - st.currentIndex - 1)

\* A number of seconds is the fraction num / den with den > 0; den = 0 stands for
\* the doubles that are not finite.  (wordsLeft / wpm) * 60 in doubles has the same
\* whole seconds as the exact fraction for every wordsLeft below 205.
NaN == [num |-> 0, den |-> 0]
PositiveInfinity == [num |-> 1, den |-> 0]
NegativeInfinity == [num |-> -1, den |-> 0]

\* Number.isFinite
isFinite(x) == x.den # 0

\* calculateRemainingTime(wordsLeft, wpm) in seconds
calculateRemainingTime(left, wpm) ==
    IF wpm <= 0 THEN [num |-> 0, den |-> 1] ELSE [num |-> left * 60, den |-> wpm]

DigitChars == <<"0", "1", "2", "3", "4", "5", "6", "7", "8", "9">>

\* Number.prototype.toString of a natural number: its decimal digits
RECURSIVE toString(_)
toString(n) ==
    IF n < 10 THEN <<DigitChars[n + 1]>>
    ELSE toString(n \div 10) \o <<DigitChars[(n % 10) + 1]>>

\* String.prototype.padStart with a pad string of one character
RECURSIVE padStart(_, _, _)
padStart(s, targetLength, padChar) ==
    IF Len(s) >= targetLength THEN s ELSE padStart(<<padChar>> \o s, targetLength, padChar)

\* formatTime without the padding of the seconds
formatTimeUnpadded(seconds) ==
    IF ~isFinite(seconds) \/ seconds.num < 0 THEN <<"0", ":", "0", "0">>
    ELSE LET mins == seconds.num \div (60 * seconds.den)
             secs == (seconds.num % (60 * seconds.den)) \div seconds.den
         IN toString(mins) \o <<":">> \o toString(secs)

\* formatTime(seconds): Math.floor(seconds / 60), ":", Math.floor(seconds % 60) padded
formatTime(seconds) ==
    IF ~isFinite(seconds) \/ seconds.num < 0 THEN <<"0", ":", "0", "0">>
    ELSE LET mins == seconds.num \div (60 * seconds.den)
             secs == (seconds.num % (60 * seconds.den)) \div seconds.den
         IN toString(mins) \o <<":">> \o padStart(toString(secs), 2, "0")

\* remainingSeconds of the rendered state
remainingSeconds(st) == calculateRemainingTime(wordsLeft(st), st.wpm)

\* the numbers interpolated into the Progress label
\* `${currentIndex + 1} / ${words.length} (${progress}%)`, shown when words.length > 0
progressLabel(st) ==
    [current |-> st.currentIndex + 1, total |-> Len(st.words), percent |-> progress(st)]

\* currentWord = words[currentIndex] || "": the word handed to generateWordSVG
currentWord(st) ==
    IF 0 <= st.currentIndex /\ st.currentIndex < Len(st.words)
    THEN st.words[st.currentIndex + 1]
    ELSE <<>>

\* ------------------------------------------------- the time utilities alone
\* the paces the utilities are called with: every pace of the hook, and 0
TimePaces == {0} \cup {MIN_WPM + k * WPM_STEP : k \in 0..((MAX_WPM - MIN_WPM) \div WPM_STEP)}

\* the calls examined: calculateRemainingTime(left, wpm) followed by formatTime of
\* its result, and formatTime of each value that is not finite
TimeCalls ==
    {[stage |-> "calculate", left |-> l, wpm |-> w, seconds |-> NaN, text |-> <<>>] :
        l \in (-1)..MaxWordsLeft, w \in TimePaces}
    \cup {[stage |-> "format", left |-> 0, wpm |-> 0, seconds |-> x, text |-> <<>>] :
        x \in {NaN, PositiveInfinity, NegativeInfinity}}

\* the hook is not mounted
InitTime ==
    /\ call \in TimeCalls
    /\ state = InitialState
    /\ intervalRef = 0
    /\ intervals = [h \in Handles |-> 0]
    /\ deps = Deps(InitialState)
    /\ effectPending = FALSE
    /\ pending = 0
    /\ loads = 0
    /\ mounted = FALSE
    /\ pass = -2

CallCalculateRemainingTime ==
    /\ call.stage = "calculate"
    /\ call' = [call EXCEPT !.stage = "format",
                            !.seconds = calculateRemainingTime(call.left, call.wpm)]
    /\ UNCHANGED <<state, intervalRef, intervals, deps, effectPending, pending, loads,
                   mounted, pass>>

CallFormatTime ==
    /\ call.stage = "format"
    /\ call' = [call EXCEPT !.stage = "done", !.text = formatTime(call.seconds)]
    /\ UNCHANGED <<state, intervalRef, intervals, deps, effectPending, pending, loads,
                   mounted, pass>>

NextTime ==
    \/ CallCalculateRemainingTime
    \/ CallFormatTime

SpecTime == InitTime /\ [][NextTime]_vars

\* ------------------------------------------------ playback left to itself
\* Playing: isPlaying with words loaded
Playing == state.isPlaying /\ Len(state.words) > 0

\* at rest: not playing, every update rendered, no effect run outstanding, no
\* interval armed, so that nothing happens until the user acts or a read completes
AtRest ==
    /\ ~Playing
    /\ pending = 0
    /\ ~effectPending
    /\ \A h \in Handles : intervals[h] = 0

\* the hook with a user who acts only while it is at rest: once playback has
\* started it is left to the interval, to React's renders and to the effect
NextAutoplay ==
    \/ AtRest /\ TogglePlay
    \/ AtRest /\ Rewind
    \/ AtRest /\ Forward
    \/ AtRest /\ SpeedUp
    \/ AtRest /\ SlowDown
    \/ AtRest /\ LoadStart
    \/ AtRest /\ Unmount
    \/ \E r \in ReadResults : LoadComplete(r)
    \/ \E h \in Handles : Tick(h)
    \/ Render
    \/ RunEffect

\* the host fires an armed interval again and again; React renders every queued
\* update and runs every scheduled effect
SpecAutoplay ==
    /\ Init
    /\ [][NextAutoplay]_vars
    /\ WF_vars(\E h \in Handles : Tick(h))
    /\ WF_vars(Render)
    /\ WF_vars(RunEffect)

\* ------------------------------------------------------ the hook left aside
hookVars == <<state, intervalRef, intervals, deps, effectPending, pending, loads, mounted, pass>>

\* the hook is not mounted while a utility is called on its own
HookNotMounted ==
    /\ state = InitialState
    /\ intervalRef = 0
    /\ intervals = [h \in Handles |-> 0]
    /\ deps = Deps(InitialState)
    /\ effectPending = FALSE
    /\ pending = 0
    /\ loads = 0
    /\ mounted = FALSE
    /\ pass = -2

\* ------------------------------------------------------ the word utilities
\* getORPIndex with the second threshold one too low
getORPIndexShifted(word) ==
    LET len == Len(word)
    IN IF len <= 1 THEN 0
       ELSE IF len <= 4 THEN 1
       ELSE IF len <= 9 THEN 2
       ELSE IF len <= 13 THEN 3
       ELSE 4

\* getORPIndex falling back to the first character for long words
getORPIndexLongFirst(word) ==
    LET len == Len(word)
    IN IF len <= 1 THEN 0
       ELSE IF len <= 5 THEN 1
       ELSE IF len <= 9 THEN 2
       ELSE IF len <= 13 THEN 3
       ELSE 0

getORPIndex(word) ==
    LET len == Len(word)
    IN IF len <= 1 THEN 0
       ELSE IF len <= 5 THEN 1
       ELSE IF len <= 9 THEN 2
       ELSE IF len <= 13 THEN 3
       ELSE 4

\* String.prototype.slice(start, end) for start, end >= 0: both clamped to the length
slice(str, start, end) ==
    LET from == Min(start, Len(str))
        to == Min(end, Len(str))
    IN IF from >= to THEN <<>> ELSE SubSeq(str, from + 1, to)

\* str[index] || "": the character at a 0-based index, "" where there is none
charAtOrEmpty(str, index) ==
    IF index >= 0 /\ index < Len(str) THEN <<str[index + 1]>> ELSE <<>>

\* splitWordAtORP with the pivot repeated at the head of the part after it
splitWordAtORPRepeatsPivot(word) ==
    [before |-> slice(word, 0, getORPIndex(word)),
     orp |-> charAtOrEmpty(word, getORPIndex(word)),
     after |-> slice(word, getORPIndex(word), Len(word))]

\* splitWordAtORP with a pivot of two characters
splitWordAtORPWidePivot(word) ==
    [before |-> slice(word, 0, getORPIndex(word)),
     orp |-> slice(word, getORPIndex(word), getORPIndex(word) + 2),
     after |-> slice(word, getORPIndex(word) + 2, Len(word))]

\* word.slice(orpIndex + 1) is slice to the end of the word
splitWordAtORP(word) ==
    [before |-> slice(word, 0, getORPIndex(word)),
     orp |-> charAtOrEmpty(word, getORPIndex(word)),
     after |-> slice(word, getORPIndex(word) + 1, Len(word))]

\* str.replace(/c/g, by) for one character c
RECURSIVE replaceAll(_, _, _)
replaceAll(str, c, by) ==
    IF str = <<>> THEN <<>>
    ELSE (IF Head(str) = c THEN by ELSE <<Head(str)>>) \o replaceAll(Tail(str), c, by)

AmpEntity == <<"&", "a", "m", "p", ";">>
LtEntity == <<"&", "l", "t", ";">>
GtEntity == <<"&", "g", "t", ";">>
QuotEntity == <<"&", "q", "u", "o", "t", ";">>
AposEntity == <<"&", "a", "p", "o", "s", ";">>

\* escapeXml replacing the ampersand last
escapeXmlAmpersandLast(str) ==
    replaceAll(replaceAll(replaceAll(replaceAll(replaceAll(str,
        "<", LtEntity), ">", GtEntity), "\"", QuotEntity), "'", AposEntity), "&", AmpEntity)

\* escapeXml: the five replacements in the order of the code, the ampersand first
escapeXml(str) ==
    replaceAll(replaceAll(replaceAll(replaceAll(replaceAll(str,
        "&", AmpEntity), "<", LtEntity), ">", GtEntity), "\"", QuotEntity), "'", AposEntity)

\* lengths on the canvas are in tenths of a pixel, so that charWidth, 0.6 of the
\* font size, and its half are whole numbers
width == 600
fontSize == 48
centerX == (width * 10) \div 2
charWidth == fontSize * 6

\* startX without the half character
startXFromPivotEdge(word) == centerX - getORPIndex(word) * charWidth

\* startX = centerX - orpIndex * charWidth - charWidth / 2
startX(word) == centerX - getORPIndex(word) * charWidth - charWidth \div 2

\* generateWordSVG: the x of the text element and the contents of its three tspans
generateWordSVG(word) ==
    [x |-> startX(word),
     tspans |-> <<escapeXml(splitWordAtORP(word).before),
                  escapeXml(splitWordAtORP(word).orp),
                  escapeXml(splitWordAtORP(word).after)>>]

\* ------------------------------------------------ the word utilities alone
\* the characters escapeXml replaces, and a letter
XmlChars == {"&", "<", ">", "\"", "'", "a"}

\* a word of n characters in which neighbours differ
OrpWord(n) == [i \in 1..n |-> <<"a", "&", "b", "<", "c">>[(i % 5) + 1]]

OrpWords == {OrpWord(n) : n \in 0..MaxOrpLen}

\* the words examined: every word of up to MaxXmlLen markup characters, a word of
\* every length up to MaxOrpLen, and two words that already hold an entity
Words ==
    UNION {[1..n -> XmlChars] : n \in 0..MaxXmlLen}
        \cup OrpWords
        \cup {AmpEntity, <<"a">> \o LtEntity \o <<"b">>}

NoParts == [before |-> <<>>, orp |-> <<>>, after |-> <<>>]
NoSvg == [x |-> 0, tspans |-> <<>>]

InitWord ==
    /\ call \in {[stage |-> "word", word |-> w, orpIndex |-> 0, parts |-> NoParts,
                   svg |-> NoSvg] : w \in Words}
    /\ HookNotMounted

CallGetORPIndex ==
    /\ call.stage = "word"
    /\ call' = [call EXCEPT !.stage = "indexed", !.orpIndex = getORPIndex(call.word)]
    /\ UNCHANGED hookVars

CallSplitWordAtORP ==
    /\ call.stage = "indexed"
    /\ call' = [call EXCEPT !.stage = "split", !.parts = splitWordAtORP(call.word)]
    /\ UNCHANGED hookVars

CallGenerateWordSVG ==
    /\ call.stage = "split"
    /\ call' = [call EXCEPT !.stage = "drawn", !.svg = generateWordSVG(call.word)]
    /\ UNCHANGED hookVars

NextWordCall ==
    \/ CallGetORPIndex
    \/ CallSplitWordAtORP
    \/ CallGenerateWordSVG

SpecWord == InitWord /\ [][NextWordCall]_vars

\* ---------------------------------------------------- the tokenizer alone
\* whitespace, a lower-case and an upper-case letter, and a punctuation mark
TokenChars == Whitespace \cup {"a", "B", ","}

\* "  hello   world  "
HelloWorldText ==
    <<" ", " ", "h", "e", "l", "l", "o", " ", " ", " ", "w", "o", "r", "l", "d", " ", " ">>

\* the texts tokenizeText is called with: every text of up to MaxTextLen characters,
\* and the named example
TokenizeTexts ==
    UNION {[1..n -> TokenChars] : n \in 0..MaxTextLen} \cup {HelloWorldText}

InitTokenize ==
    /\ call \in {[stage |-> "tokenize", text |-> t, words |-> <<>>] : t \in TokenizeTexts}
    /\ HookNotMounted

CallTokenizeText ==
    /\ call.stage = "tokenize"
    /\ call' = [call EXCEPT !.stage = "tokenized", !.words = tokenizeText(call.text)]
    /\ UNCHANGED hookVars

SpecTokenize == InitTokenize /\ [][CallTokenizeText]_vars

\* ------------------------------------------------------------ vocabulary
tokens == state.words
cursor == state.currentIndex
running == state.isPlaying
pace == state.wpm

\* the armed intervals
Armed == {h \in Handles : intervals[h] # 0}

LastIndex == Len(tokens) - 1

\* the reads that give nothing to read: no text, only whitespace, or no token
NothingToRead ==
    {r \in ReadResults :
        \/ r.kind = "undefined"
        \/ r.kind = "text" /\ \A i \in 1..Len(r.text) : r.text[i] \in Whitespace
        \/ r.kind = "text" /\ tokenizeText(r.text) = <<>>}

\* the tokens of every clipboard text
tokensOf == [t \in ClipboardTexts |-> tokenizeText(t)]

\* i clamped into [lo, hi]
Clamp(i, lo, hi) == Max(lo, Min(hi, i))

\* settled: every queued update is rendered and the timer effect has run for it
Settled == mounted /\ pending = 0 /\ ~effectPending

\* the delay of an armed interval
delayOf(h) == intervalMs(intervals[h])

\* the character of a decimal digit, read back as its value
DigitValue(ch) == CHOOSE d \in 0..9 : DigitChars[d + 1] = ch

\* a string of decimal digits read as a number
RECURSIVE ParseDecimal(_)
ParseDecimal(s) ==
    IF s = <<>> THEN 0
    ELSE 10 * ParseDecimal(SubSeq(s, 1, Len(s) - 1)) + DigitValue(s[Len(s)])

Digits == {DigitChars[i] : i \in 1..10}

\* the characters i..j of t are a maximal run of non-whitespace characters
IsRun(t, i, j) ==
    /\ i <= j
    /\ \A k \in i..j : t[k] \notin Whitespace
    /\ i = 1 \/ t[i - 1] \in Whitespace
    /\ j = Len(t) \/ t[j + 1] \in Whitespace

Runs(t) == {r \in (1..Len(t)) \X (1..Len(t)) : IsRun(t, r[1], r[2])}

\* the stages of a word call at which its index, its parts, its image are known
Indexed == call.stage \in {"indexed", "split", "drawn"}
Split == call.stage \in {"split", "drawn"}
Drawn == call.stage = "drawn"

\* the five entities and the character each stands for
Entities ==
    {[text |-> AmpEntity, char |-> "&"], [text |-> LtEntity, char |-> "<"],
     [text |-> GtEntity, char |-> ">"], [text |-> QuotEntity, char |-> "\""],
     [text |-> AposEntity, char |-> "'"]}

\* the entities that str starts with at position i
EntitiesAt(str, i) ==
    {e \in Entities :
        /\ i + Len(e.text) - 1 <= Len(str)
        /\ SubSeq(str, i, i + Len(e.text) - 1) = e.text}

\* str with every entity replaced by its character, read from position i on
RECURSIVE unescapeFrom(_, _)
unescapeFrom(str, i) ==
    IF i > Len(str) THEN <<>>
    ELSE IF EntitiesAt(str, i) # {}
         THEN LET e == CHOOSE e \in EntitiesAt(str, i) : TRUE
              IN <<e.char>> \o unescapeFrom(str, i + Len(e.text))
         ELSE <<str[i]>> \o unescapeFrom(str, i + 1)

\* embedded is the escaped form of piece
IsEscaped(embedded, piece) ==
    /\ \A i \in 1..Len(embedded) : embedded[i] \notin {"<", ">", "\"", "'"}
    /\ \A i \in 1..Len(embedded) : embedded[i] = "&" => EntitiesAt(embedded, i) # {}
    /\ unescapeFrom(embedded, 1) = piece

\* the end of a pass: paused at the last word, everything rendered, no interval armed
Terminal ==
    /\ mounted /\ tokens # <<>>
    /\ ~running /\ cursor = LastIndex
    /\ Armed = {} /\ pending = 0 /\ ~effectPending

\* ----------------------------------------------------------------- claims

\* C1: in every reachable state 0 <= cursor < max(1, len(tokens)), also when the
\* actions run in the Empty state.  (Fails: forward in Empty gives cursor -1.)
C1_CursorInRange == 0 <= cursor /\ cursor < Max(1, Len(tokens))

\* C2: running is false whenever the token sequence is empty.  (Fails: togglePlay
\* in Empty sets isPlaying.)
C2_EmptyNeverRunning == (tokens = <<>>) => ~running

\* C3: at most one interval is armed in any state, whatever the interleaving of
\* togglePlay, pace changes, loads, ticks, renders and effect runs.
C3_AtMostOneTimer == Cardinality(Armed) <= 1

\* C3 witness: playback under way on an interval armed at a pace other than the default
C3_Witness ==
    /\ \E h \in Handles : intervals[h] # 0 /\ intervals[h] # DEFAULT_WPM
    /\ running /\ cursor > 0 /\ ~effectPending /\ pending = 0

\* C4: no interval callback runs while running is false.  (Fails: the interval
\* stays armed from the state update until the timer effect runs again.)
C4_NoTickWhenNotRunning == [][(\E h \in Handles : Tick(h)) => running]_vars

\* C5 as stated: every completed load of a text replaces the tokens by the text's
\* tokens, also when there are none, and sets cursor 0 and running false.
C5_LoadAlwaysReplaces ==
    [][\A r \in ReadResults :
          (LoadComplete(r) /\ mounted /\ r.kind = "text") =>
              /\ tokens' = tokensOf[r.text]
              /\ cursor' = 0
              /\ ~running']_vars

\* C5 amended: a completed load of a text with at least one token replaces the
\* tokens, sets cursor 0 and running false and keeps the pace (Paused); a load of
\* a text without tokens leaves the state as it was.
C5_LoadReplacesOrKeeps ==
    [][\A r \in ReadResults :
          (LoadComplete(r) /\ mounted /\ r.kind = "text") =>
              IF tokensOf[r.text] # <<>>
              THEN /\ tokens' = tokensOf[r.text]
                   /\ cursor' = 0
                   /\ ~running'
                   /\ pace' = pace
              ELSE state' = state]_vars

\* C5 witness: a text was loaded while an interval was armed (load from Playing)
C5_Witness == pass = -1 /\ Armed # {} /\ tokens # <<>> /\ cursor = 0 /\ ~running

\* C6: a load that finds nothing to read shows a failure notice, not the success
\* one, does not start playback and leaves tokens, cursor, running and pace alone.
C6_NothingToReadKeepsState ==
    [][\A r \in ReadResults :
          (LoadComplete(r) /\ r \in NothingToRead) =>
              /\ loadToast(r) \in FailureToasts \ {"Error"}
              /\ state' = state]_vars

\* C6 witness: the load started at mount has completed and the engine is still Empty
C6_Witness == mounted /\ loads = 0 /\ state = InitialState

\* C7: a rejected clipboard read shows the generic error notice and changes
\* neither the state nor the interval table nor intervalRef.
C7_ReadFailureKeepsAll ==
    [][\A r \in ReadResults :
          (LoadComplete(r) /\ r.kind = "throw") =>
              /\ loadToast(r) = "Error"
              /\ UNCHANGED <<state, intervals, intervalRef>>]_vars

\* C7 witness: after a pace increase no read is in flight and the engine is still
\* Empty at the raised pace: every read so far failed and changed nothing
C7_Witness == mounted /\ loads = 0 /\ tokens = <<>> /\ pace = DEFAULT_WPM + WPM_STEP

\* C8: togglePlay with tokens loaded restarts at 0 and plays when paused at the
\* last index; otherwise it negates running and keeps the cursor; tokens and pace stay.
C8_TogglePlay ==
    [][(TogglePlay /\ tokens # <<>>) =>
          /\ IF cursor = LastIndex /\ ~running
             THEN cursor' = 0 /\ running'
             ELSE cursor' = cursor /\ running' = ~running
          /\ tokens' = tokens
          /\ pace' = pace]_vars

\* C8 witness: togglePlay has just started playback at cursor 0 of a text of several
\* words (its update is queued and not yet rendered)
C8_Witness == pass = 0 /\ pending = 1 /\ running /\ cursor = 0 /\ Len(tokens) > 1

\* C9: a tick at the last index sets running false and keeps the cursor; any
\* other tick adds exactly 1 and keeps running; the cursor never passes the last index.
C9_Advance ==
    [][\A h \in Handles : (Tick(h) /\ mounted) =>
          /\ IF cursor = LastIndex
             THEN ~running' /\ cursor' = cursor
             ELSE cursor' = cursor + 1 /\ running' = running
          /\ cursor' <= LastIndex
          /\ tokens' = tokens]_vars

\* C9 witness: the tick at the last index of a text of several words has stopped the pass
C9_Witness == pass = Len(tokens) /\ Len(tokens) > 1 /\ cursor = LastIndex /\ ~running

\* C10: after load the state is Paused at cursor 0; after togglePlay and k <= n-1
\* ticks it is cursor k, running; the n-th tick leaves cursor n-1 and stops.
C10_Pass ==
    /\ pass = -1 => (tokens # <<>> /\ cursor = 0 /\ ~running)
    /\ (pass >= 0 /\ pass < Len(tokens)) => (cursor = pass /\ running)
    /\ (pass >= 0 /\ pass >= Len(tokens)) =>
           (pass = Len(tokens) /\ cursor = LastIndex /\ ~running)

\* C10 witness: the third tick of a pass over the three words a / b, / c
C10_Witness == Len(tokens) = 3 /\ pass = 3 /\ cursor = 2 /\ ~running

\* C11: with tokens loaded (Paused or Playing) rewind and forward set the cursor to
\* cursor -/+ SKIP_WORDS clamped into [0, last index]; it is never negative and never
\* past the last index.
C11_SeekClamps ==
    [][(tokens # <<>>) =>
          /\ Rewind => cursor' = Clamp(cursor - SKIP_WORDS, 0, LastIndex)
          /\ Forward => cursor' = Clamp(cursor + SKIP_WORDS, 0, LastIndex)
          /\ (Rewind \/ Forward) => (0 <= cursor' /\ cursor' <= LastIndex)]_vars

\* C11 witness: during playback of the long text a skip has moved the cursor by
\* SKIP_WORDS without clamping
C11_Witness ==
    /\ Len(tokens) > SKIP_WORDS + 1 /\ running /\ pass = -2
    /\ cursor \in {1, SKIP_WORDS} /\ pending = 1

\* C12: rewind and forward change the cursor only: tokens, running and pace stay,
\* the interval table and intervalRef stay, and no dependency of the timer effect
\* changes, so the next render does not schedule the effect.
C12_SeekOnlyMovesCursor ==
    [][(Rewind \/ Forward) =>
          /\ tokens' = tokens /\ running' = running /\ pace' = pace
          /\ UNCHANGED <<intervals, intervalRef, effectPending>>
          /\ Deps(state') = Deps(state)]_vars

\* C12 witness: a skip during playback has been rendered; the interval armed before
\* it is still the armed one and no effect is scheduled
C12_Witness ==
    /\ Settled /\ running /\ pass = -2 /\ cursor = SKIP_WORDS
    /\ intervalRef # 0 /\ Armed = {intervalRef}

\* C13: the pace is always within [MIN_WPM, MAX_WPM]; speedUp at MAX_WPM and
\* slowDown at MIN_WPM leave it where it is.
C13_PaceInRange ==
    /\ MIN_WPM <= pace /\ pace <= MAX_WPM
    /\ pace = MAX_WPM => speedUp(state).wpm = MAX_WPM
    /\ pace = MIN_WPM => slowDown(state).wpm = MIN_WPM

\* C13 witness: the pace is MAX_WPM with an update queued that did not change it
C13_Witness == pace = MAX_WPM /\ pending = 1 /\ deps.wpm = MAX_WPM /\ pass = -2

\* C14: speedUp and slowDown leave cursor, tokens and running alone; the effect run
\* that follows during playback arms one interval at the rendered pace and moves
\* neither the cursor nor running.
C14_PaceChange ==
    [][/\ (SpeedUp \/ SlowDown) =>
              (cursor' = cursor /\ tokens' = tokens /\ running' = running)
       /\ RunEffect =>
              /\ state' = state
              /\ shouldArm(deps) =>
                     /\ intervalRef' # 0
                     /\ Armed' = {intervalRef'}
                     /\ intervals'[intervalRef'] = deps.wpm]_vars

\* C14 witness: playback goes on past the second word on an interval armed at the
\* pace one step above the default
C14_Witness ==
    /\ Settled /\ running /\ cursor = 2 /\ pace = DEFAULT_WPM + WPM_STEP
    /\ \E h \in Handles : intervals[h] = pace

\* C15: in a settled state the delay of every armed interval is 60000 / pace
\* milliseconds for the current pace.
C15_PeriodMatchesPace ==
    Settled => \A h \in Armed : delayOf(h).num * pace = 60000 * delayOf(h).den

\* C15 witness: an interval armed at the pace one step below the default, settled
C15_Witness ==
    /\ Settled /\ pace = DEFAULT_WPM - WPM_STEP
    /\ \E h \in Armed : delayOf(h) = intervalMs(DEFAULT_WPM - WPM_STEP)

\* C16: in a settled state an interval is armed exactly when running is true and
\* the token sequence is not empty.
C16_ArmedIffPlaying == Settled => ((Armed # {}) <=> (running /\ tokens # <<>>))

\* C16 witness: settled with an interval armed at the default pace, one word read
C16_Witness == Settled /\ Armed # {} /\ running /\ cursor = 1 /\ pace = DEFAULT_WPM

\* C17: after a successful load no tick of an interval armed before it moves the
\* cursor of the new tokens or changes running, until the next user action.
\* (Fails: the interval stays armed until the timer effect runs again.)
C17_NoTickAfterLoad ==
    [][(pass = -1 /\ \E h \in Handles : Tick(h)) =>
          (cursor' = 0 /\ ~running')]_vars

\* C18 as stated: in Playing (running, tokens loaded) the cursor increases only by a tick, and by 1.
C18_OnlyTicksAdvance ==
    [][(running /\ tokens # <<>> /\ cursor' > cursor) =>
          ((\E h \in Handles : Tick(h)) /\ cursor' = cursor + 1)]_vars

\* C18 amended: in Playing (running, tokens loaded) the cursor increases only by a
\* tick, and then by exactly 1, or by the user's skip forward.
C18_TicksOrForwardAdvance ==
    [][(running /\ tokens # <<>> /\ cursor' > cursor) =>
          \/ (\E h \in Handles : Tick(h)) /\ cursor' = cursor + 1
          \/ Forward]_vars

\* C18 witness: two ticks into a pass, running, with the interval still armed
C18_Witness == running /\ pass = 2 /\ cursor = 2 /\ Armed # {} /\ Len(tokens) > 3

\* C19 as stated: in every state the progress is the rounded percentage of
\* cursor / (len - 1), 0 with fewer than 2 tokens; the words remaining are
\* len - cursor - 1; the seconds remaining are the words remaining / pace * 60.
C19_SnapshotAsStated ==
    /\ IF Len(tokens) < 2 THEN progress(state) = 0
       ELSE LET d == 2 * (progress(state) * LastIndex - 100 * cursor)
            IN -LastIndex < d /\ d <= LastIndex
    /\ wordsLeft(state) = Len(tokens) - cursor - 1
    /\ remainingSeconds(state).num * pace
           = (Len(tokens) - cursor - 1) * 60 * remainingSeconds(state).den

\* C19 amended: as stated, except that the words remaining are len - cursor - 1
\* only with tokens loaded, and 0 in the Empty state.
C19_Snapshot ==
    /\ IF Len(tokens) < 2 THEN progress(state) = 0
       ELSE LET d == 2 * (progress(state) * LastIndex - 100 * cursor)
            IN -LastIndex < d /\ d <= LastIndex
    /\ wordsLeft(state) = IF tokens # <<>> THEN Len(tokens) - cursor - 1 ELSE 0
    /\ remainingSeconds(state).num * pace
           = wordsLeft(state) * 60 * remainingSeconds(state).den

\* C19 witness: at the second of three words: 50%, one word and 60 / pace seconds left
C19_Witness ==
    /\ Len(tokens) = 3 /\ cursor = 1 /\ progress(state) = 50 /\ wordsLeft(state) = 1
    /\ remainingSeconds(state) = [num |-> 60, den |-> pace]

\* C20: formatTime renders a finite, non-negative number of seconds as M:SS: the
\* text is the decimal M = floor(seconds / 60), a colon, and exactly two digits
\* SS = floor(seconds mod 60) within 00..59; 100 words at pace 300 are 20 seconds
\* and render as 0:20; a negative or non-finite number of seconds renders as 0:00.
C20_FormatTime ==
    (call.stage = "done") =>
        LET x == call.seconds
            t == call.text
            n == Len(t)
        IN /\ n >= 4 /\ t[n - 2] = ":"
           /\ \A i \in (1..n) \ {n - 2} : t[i] \in Digits
           /\ LET M == ParseDecimal(SubSeq(t, 1, n - 3))
                  SS == ParseDecimal(SubSeq(t, n - 1, n))
              IN IF isFinite(x) /\ x.num >= 0
                 THEN /\ 0 <= SS /\ SS <= 59
                      /\ (60 * M + SS) * x.den <= x.num
                      /\ x.num < (60 * M + SS + 1) * x.den
                 ELSE M = 0 /\ SS = 0
           /\ (call.left = 100 /\ call.wpm = 300) =>
                  (x.num = 20 * x.den /\ t = <<"0", ":", "2", "0">>)

\* C20 witness: 100 words left at pace 300 have been rendered
C20_Witness ==
    call.stage = "done" /\ call.left = 100 /\ call.wpm = 300 /\ call.text = <<"0", ":", "2", "0">>

\* C21: the tokens of a text are exactly its maximal runs of non-whitespace
\* characters, in the order of the text, each copied unchanged (punctuation and
\* case kept); "  hello   world  " gives hello, world.
C21_TokensAreRuns ==
    (call.stage = "tokenized") =>
        LET t == call.text
            w == call.words
        IN /\ Len(w) = Cardinality(Runs(t))
           /\ \A r \in Runs(t) :
                  w[1 + Cardinality({q \in Runs(t) : q[1] < r[1]})] = SubSeq(t, r[1], r[2])
           /\ \A k \in 1..Len(w) :
                  w[k] # <<>> /\ \A i \in 1..Len(w[k]) : w[k][i] \notin Whitespace
           /\ t = HelloWorldText =>
                  w = << <<"h", "e", "l", "l", "o">>, <<"w", "o", "r", "l", "d">> >>

\* C21 witness: a text with leading whitespace, a tab between two tokens, a capital
\* and a comma has been tokenized
C21_Witness ==
    /\ call.stage = "tokenized"
    /\ call.text = <<" ", "a", "\t", "B", ",">>
    /\ call.words = << <<"a">>, <<"B", ",">> >>

\* C22: tokenizeText returns a value for every text; for the empty text and for a
\* text of whitespace only it is the empty sequence, and no result ever holds an
\* empty token.
C22_TokenizeTotal ==
    (call.stage = "tokenized") =>
        /\ \A k \in 1..Len(call.words) : call.words[k] # <<>>
        /\ (\A i \in 1..Len(call.text) : call.text[i] \in Whitespace) => call.words = <<>>

\* C22 witness: a text of a space, a tab and a newline has been tokenized to nothing
C22_Witness ==
    call.stage = "tokenized" /\ call.text = <<" ", "\t", "\n">> /\ call.words = <<>>

\* C23: the pivot index of a word is fixed by its length L: 0 for L <= 1, 1 for
\* 2..5, 2 for 6..9, 3 for 10..13 and 4 from 14 on.
C23_OrpThresholds ==
    Indexed =>
        LET L == Len(call.word)
        IN /\ (L <= 1) => call.orpIndex = 0
           /\ (2 <= L /\ L <= 5) => call.orpIndex = 1
           /\ (6 <= L /\ L <= 9) => call.orpIndex = 2
           /\ (10 <= L /\ L <= 13) => call.orpIndex = 3
           /\ (L >= 14) => call.orpIndex = 4

\* C23 witness: a word of 14 characters has got its index
C23_Witness == Indexed /\ Len(call.word) = 14 /\ call.orpIndex = 4

\* C24: the pivot index is between 0 and 4, no longer word has a smaller index
\* and no shorter word a larger one.
C24_OrpMonotone ==
    Indexed =>
        /\ 0 <= call.orpIndex /\ call.orpIndex <= 4
        /\ \A w \in OrpWords :
              /\ Len(call.word) <= Len(w) => call.orpIndex <= getORPIndex(w)
              /\ Len(w) <= Len(call.word) => getORPIndex(w) <= call.orpIndex

\* C24 witness: the longest word has got its index
C24_Witness == call.stage = "indexed" /\ Len(call.word) = MaxOrpLen

\* C25: the three parts of every word, the empty one included, concatenate in
\* the order before, pivot, after to the word.
C25_SplitRoundTrip ==
    Split => call.parts.before \o call.parts.orp \o call.parts.after = call.word

\* C25 witness: a word of six characters has been split after its second character
C25_Witness ==
    /\ call.stage = "split" /\ Len(call.word) = 6
    /\ Len(call.parts.before) = 2 /\ Len(call.parts.after) = 3

\* C26: the part before the pivot is the first orpIndex characters; for a word
\* that is not empty the index is within the word, the pivot is the one character
\* at the index and the part after it has len - orpIndex - 1 characters; for the
\* empty word the index is 0 and the three parts are empty.
C26_SplitPartition ==
    Split =>
        LET w == call.word
            i == call.orpIndex
        IN /\ Len(call.parts.before) = i
           /\ IF w # <<>>
              THEN /\ i < Len(w)
                   /\ call.parts.before = SubSeq(w, 1, i)
                   /\ call.parts.orp = <<w[i + 1]>>
                   /\ Len(call.parts.after) = Len(w) - i - 1
              ELSE i = 0 /\ call.parts = NoParts

\* C26 witness: the empty word has been split
C26_Witness == Split /\ call.word = <<>> /\ call.parts = NoParts /\ call.orpIndex = 0

\* C27: the text starts at centerX - orpIndex * charWidth - charWidth / 2, so the
\* middle of the pivot, which follows the characters before it, each charWidth
\* wide, is at centerX for a word of any length.
C27_PivotCentred ==
    Drawn =>
        /\ 2 * call.svg.x = 2 * centerX - 2 * call.orpIndex * charWidth - charWidth
        /\ 2 * (call.svg.x + Len(call.parts.before) * charWidth) + charWidth = 2 * centerX

\* C27 witness: a word of ten characters has been drawn with three characters
\* before the pivot
C27_Witness ==
    /\ Drawn /\ Len(call.word) = 10 /\ Len(call.parts.before) = 3
    /\ call.svg.x = centerX - 3 * charWidth - charWidth \div 2

\* C28: each of the three embedded texts holds no raw <, >, " or ', every & in it
\* starts one of the five entities, and replacing the entities by their
\* characters gives back the part of the word (an & of the word is escaped once).
C28_TextEscaped ==
    Drawn =>
        /\ Len(call.svg.tspans) = 3
        /\ IsEscaped(call.svg.tspans[1], call.parts.before)
        /\ IsEscaped(call.svg.tspans[2], call.parts.orp)
        /\ IsEscaped(call.svg.tspans[3], call.parts.after)

\* C28 witness: the word a&lt;b has been drawn: the & before its pivot l is
\* embedded as &amp;
C28_Witness ==
    /\ Drawn /\ call.word = <<"a">> \o LtEntity \o <<"b">>
    /\ call.svg.tspans = << <<"a">> \o AmpEntity, <<"l">>, <<"t", ";", "b">> >>

\* C29: with tokens loaded the Progress label shows current = cursor + 1 within
\* 1..total, total = len(tokens) and a percentage within 0..100, which is 0 at
\* cursor 0 and, with at least 2 tokens, 100 at the last index.
C29_ProgressLabel ==
    (tokens # <<>>) =>
        LET label == progressLabel(state)
        IN /\ label.current = cursor + 1
           /\ 1 <= label.current /\ label.current <= label.total
           /\ label.total = Len(tokens)
           /\ 0 <= label.percent /\ label.percent <= 100
           /\ (cursor = 0) => label.percent = 0
           /\ (Len(tokens) >= 2 /\ cursor = LastIndex) => label.percent = 100

\* C29 witness: a pass over the long text has ended at its last word: 100%
C29_Witness ==
    /\ Len(tokens) = LongWords /\ pass = LongWords
    /\ progressLabel(state) = [current |-> LongWords, total |-> LongWords, percent |-> 100]

\* C30: whenever tokens are loaded the cursor is within 0..len-1, so the word
\* handed to the renderer is the token at the cursor and never the "" fallback.
C30_CursorInLoadedText ==
    (tokens # <<>>) =>
        /\ 0 <= cursor /\ cursor <= LastIndex
        /\ currentWord(state) = tokens[cursor + 1]
        /\ currentWord(state) # <<>>

\* C30 witness: the one-word text has just been loaded over the long text (the
\* last render still saw the long one)
C30_Witness ==
    pass = -1 /\ Len(tokens) = 1 /\ deps.len = LongWords /\ cursor = 0 /\ mounted

\* C31: when the engine is Playing, no read is in flight and the user does not
\* act, the fairly firing interval brings it to the end of the pass: running
\* false at the last index with no interval armed; there no tick, render or
\* effect run can happen any more.
C31_PlaybackEnds ==
    /\ (Playing /\ mounted /\ loads = 0) ~> Terminal
    /\ [][Terminal => ~(Render \/ RunEffect \/ \E h \in Handles : Tick(h))]_vars

\* C31 witness: playback of the long text, started from its last word and so
\* restarted at the first, has come to rest at the last word at a changed pace
C31_Witness ==
    Terminal /\ loads = 0 /\ Len(tokens) = LongWords /\ pass = LongWords /\ pace # DEFAULT_WPM

\* C32: in a pass that togglePlay starts at cursor 0 and no user action or load
\* interrupts, the cursor is 0 at the start, every step that keeps the pass going
\* either leaves the cursor or moves it from k to k + 1 at the k + 1st tick, and
\* the tick after the last index stops there; togglePlay in the finished state
\* starts the next pass at 0 again.
C32_PassInOrder ==
    [][(pass' >= 0) =>
          \/ pass' = pass /\ cursor' = cursor
          \/ /\ pass' = 0 /\ pass \in {-1, Len(tokens)}
             /\ cursor' = 0 /\ running' /\ tokens' = tokens
          \/ /\ pass >= 0 /\ pass' = pass + 1 /\ pass' < Len(tokens)
             /\ cursor = pass /\ cursor' = pass' /\ running' /\ tokens' = tokens
          \/ /\ pass >= 0 /\ pass' = pass + 1 /\ pass' = Len(tokens)
             /\ cursor = LastIndex /\ cursor' = cursor /\ ~running' /\ tokens' = tokens]_vars

\* C32 witness: the pass over the long text is at its last word, still running
C32_Witness ==
    /\ Len(tokens) = LongWords /\ pass = LongWords - 1
    /\ cursor = LongWords - 1 /\ running

\* C33: a completed read that is applied gives the tokens of that read, cursor 0,
\* running false and the pace of the state it completes in, whatever was done
\* between its start and its completion, other reads included.
C33_LoadAppliedToCurrentState ==
    [][\A r \in ReadResults :
          (LoadComplete(r) /\ mounted /\ loadOutcome[r].toast = "Text Loaded") =>
              state' = [words |-> tokensOf[r.text], currentIndex |-> 0,
                        isPlaying |-> FALSE, wpm |-> pace]]_vars

\* C33 witness: with another read still in flight, a read has completed during
\* playback at a raised pace: the pace is kept and the interval is still armed
C33_Witness ==
    /\ pass = -1 /\ pending = 1 /\ loads > 0 /\ Armed # {}
    /\ deps.isPlaying /\ deps.wpm = DEFAULT_WPM + WPM_STEP
    /\ state = [words |-> tokens, currentIndex |-> 0, isPlaying |-> FALSE,
                wpm |-> DEFAULT_WPM + WPM_STEP]
    /\ tokens # <<>>

\* C34: the pace is always a multiple of WPM_STEP; speedUp and slowDown move it
\* by exactly WPM_STEP, except at MAX_WPM and MIN_WPM, where they leave it.
C34_PaceInSteps ==
    /\ pace % WPM_STEP = 0
    /\ speedUp(state).wpm = IF pace = MAX_WPM THEN pace ELSE pace + WPM_STEP
    /\ slowDown(state).wpm = IF pace = MIN_WPM THEN pace ELSE pace - WPM_STEP

\* C34 witness: slowDown has just moved the pace from MIN_WPM + WPM_STEP to MIN_WPM
C34_Witness ==
    pace = MIN_WPM /\ deps.wpm = MIN_WPM + WPM_STEP /\ pending = 1 /\ pass = -2

\* C35: in Playing, speedUp at MAX_WPM and slowDown at MIN_WPM leave the state,
\* the interval table and intervalRef as they are and change no dependency of
\* the timer effect; a render that finds the dependencies unchanged schedules no
\* effect run, so the interval is neither cleared nor armed again.
C35_ClampedPaceChangesNothing ==
    [][/\ (Playing /\ ((SpeedUp /\ pace = MAX_WPM) \/ (SlowDown /\ pace = MIN_WPM))) =>
              /\ state' = state
              /\ UNCHANGED <<intervals, intervalRef, effectPending>>
              /\ Deps(state') = Deps(state)
       /\ (Render /\ Deps(state) = deps) =>
              (~effectPending' /\ UNCHANGED <<intervals, intervalRef>>)]_vars

\* C35 witness: playback at MAX_WPM on the interval armed at MAX_WPM, with an
\* update queued that changed neither the pace nor the cursor
C35_Witness ==
    /\ Playing /\ pace = MAX_WPM /\ deps = Deps(state) /\ pending = 1 /\ pass = -2
    /\ cursor = 1 /\ intervalRef # 0 /\ Armed = {intervalRef}
    /\ intervals[intervalRef] = MAX_WPM

\* C36: the session starts Empty with no interval armed; the unmount clears any
\* armed interval, in Playing too, and no interval fires once the command is
\* unmounted.
C36_StartsEmptyEndsDisarmed ==
    /\ tokens = <<>> /\ cursor = 0 /\ ~running /\ Armed = {}
    /\ [][/\ Unmount => Armed' = {}
          /\ (\E h \in Handles : Tick(h)) => mounted
          /\ ~mounted => Armed' = {}]_vars

\* C36 witness: the command was unmounted during playback: no interval is armed,
\* intervalRef still holds the cleared handle
C36_Witness ==
    ~mounted /\ running /\ tokens # <<>> /\ cursor > 0 /\ Armed = {} /\ intervalRef # 0

====
